---- MODULE Spec2Model ----
(***************************************************************************)
(* The environment record of the Coffee-shop front end                     *)
(* (frontend/src/environments/environment.ts): one exported object         *)
(* literal, read by the rest of the application.                           *)
(*                                                                         *)
(* The state is the object behind the exported binding, what each reader   *)
(* of it last obtained, and the authentication request a consumer builds   *)
(* from it.  Property reads and property assignments follow the            *)
(* semantics of the language on a plain (not frozen) object literal.       *)
(* Strings are sequences of one-character strings, so that a value can be  *)
(* measured and parsed.                                                    *)
(***************************************************************************)
EXTENDS Integers, Sequences, FiniteSets, TLC

\* Number of consumers that read the record concurrently.
NumReaders == 2

Readers == 1..NumReaders

---------------------------------------------------------------------------
(* Values: a primitive carries its runtime type tag (what typeof yields).  *)

Bool(b) == [t |-> "boolean", b |-> b, s |-> <<>>]
Str(s) == [t |-> "string", b |-> FALSE, s |-> s]
Obj(f) == [t |-> "object", f |-> f]

\* The value of a property that does not exist.
Undefined == [t |-> "undefined", b |-> FALSE, s |-> <<>>]
\* The outcome of reading a property of undefined: the expression throws.
Thrown == [t |-> "TypeError", b |-> FALSE, s |-> <<>>]

typeof(v) == v.t

---------------------------------------------------------------------------
(* The literal of environment.ts, field by field.                          *)

\* The flag left on, as in a production build.
productionTrue == Bool(TRUE)

production == Bool(FALSE)

\* The API addressed by name instead of by address.
apiServerUrlLocalhost ==
  Str(<<"h", "t", "t", "p", ":", "/", "/", "l", "o", "c", "a", "l", "h",
        "o", "s", "t", ":", "5", "0", "0", "0">>)

apiServerUrl ==
  Str(<<"h", "t", "t", "p", ":", "/", "/", "1", "2", "7", ".", "0", ".",
        "0", ".", "1", ":", "5", "0", "0", "0">>)

url ==
  Str(<<"u", "i", "-", "i", "n", "t", "e", "g", "r", "a", "t", "e", "d",
        ".", "e", "u">>)

\* The audience given as a bare identifier instead of the API's URL.
audienceIdentifier == Str(<<"c", "o", "f", "f", "e", "e">>)

audience ==
  Str(<<"h", "t", "t", "p", ":", "/", "/", "1", "2", "7", ".", "0", ".",
        "0", ".", "1", ":", "5", "0", "0", "0">>)

\* The client id left blank.
clientIdEmpty == Str(<<>>)

clientId ==
  Str(<<"q", "o", "P", "6", "2", "t", "t", "v", "o", "O", "2", "Q", "N",
        "p", "t", "G", "j", "G", "t", "1", "Z", "X", "8", "6", "5", "a",
        "i", "R", "Q", "x", "5", "d">>)

\* The callback URL written without its scheme.
callbackURLNoScheme ==
  Str(<<"1", "2", "7", ".", "0", ".", "0", ".", "1", ":", "8", "1", "0",
        "0">>)

callbackURL ==
  Str(<<"h", "t", "t", "p", ":", "/", "/", "1", "2", "7", ".", "0", ".",
        "0", ".", "1", ":", "8", "1", "0", "0">>)

\* The nested record with the callback key spelt callbackUrl.
auth0CallbackUrl ==
  Obj([url |-> url,
       audience |-> audience,
       clientId |-> clientId,
       callbackUrl |-> callbackURL])

auth0 ==
  Obj([url |-> url,
       audience |-> audience,
       clientId |-> clientId,
       callbackURL |-> callbackURL])

\* export const environment = { ... }
EnvironmentLiteral ==
  Obj([production |-> production,
       apiServerUrl |-> apiServerUrl,
       auth0 |-> auth0])

---------------------------------------------------------------------------
(* Property access and assignment on the object.                           *)

\* v.key
GetProp(v, key) ==
  IF typeof(v) \in {"undefined", "TypeError"} THEN Thrown
  ELSE IF typeof(v) = "object"
    THEN IF key \in DOMAIN v.f THEN v.f[key] ELSE Undefined
    ELSE Undefined

\* v.k1.k2...
RECURSIVE GetPath(_, _)
GetPath(v, path) ==
  IF path = <<>> THEN v
  ELSE GetPath(GetProp(v, Head(path)), Tail(path))

\* v.key = w on a frozen object: the assignment is ignored.
SetPropFrozen(v, key, w) == v

\* v.key = w on a plain object: the property is created or replaced.
SetProp(v, key, w) ==
  IF typeof(v) = "object"
    THEN Obj([k \in DOMAIN v.f \cup {key} |-> IF k = key THEN w ELSE v.f[k]])
    ELSE v

\* v.k1.k2... = w; the object is left alone when the assignment throws.
RECURSIVE PutPath(_, _, _)
PutPath(v, path, w) ==
  IF Len(path) = 1 THEN SetProp(v, Head(path), w)
  ELSE IF typeof(GetProp(v, Head(path))) = "object"
    THEN SetProp(v, Head(path), PutPath(GetProp(v, Head(path)), Tail(path), w))
    ELSE v

---------------------------------------------------------------------------
(* The field paths: those the source declares, and those a consumer        *)
(* written against the interface table would use.                          *)

CodePaths ==
  { <<"production">>, <<"apiServerUrl">>,
    <<"auth0", "url">>, <<"auth0", "audience">>,
    <<"auth0", "clientId">>, <<"auth0", "callbackURL">> }

TablePaths ==
  { <<"production">>, <<"apiServerUrl">>,
    <<"auth", "domainPrefix">>, <<"auth", "audience">>,
    <<"auth", "clientId">>, <<"auth", "callbackUrl">> }

Paths == CodePaths \cup TablePaths

\* The values an assignment to a field may carry: the field's inferred type.
WriteValues(p) ==
  IF typeof(GetPath(EnvironmentLiteral, p)) = "boolean"
    THEN {Bool(TRUE), Bool(FALSE)}
    ELSE {Str(<<"x">>)}

---------------------------------------------------------------------------
VARIABLES
  environment,  \* the object behind the exported binding
  got,          \* per reader: the path it last read and what it obtained
  written,      \* per field: the value last assigned to it, if any
  request       \* the authentication request built from the record

vars == <<environment, got, written, request>>

NoRead == [read |-> FALSE, path |-> <<>>, val |-> Undefined]
NotWritten == [t |-> "none", b |-> FALSE, s |-> <<>>]
NoRequest ==
  [built |-> FALSE, domain |-> Undefined, audience |-> Undefined,
   clientId |-> Undefined, redirectUri |-> Undefined]

\* The readers start before the module has been evaluated: the binding
\* holds no object yet.
InitUnestablished ==
  /\ environment = Undefined
  /\ got = [r \in Readers |-> NoRead]
  /\ written = [p \in CodePaths |-> NotWritten]
  /\ request = NoRequest

\* The state once the module has been evaluated, which is before any
\* importer runs.
Init ==
  /\ environment = EnvironmentLiteral
  /\ got = [r \in Readers |-> NoRead]
  /\ written = [p \in CodePaths |-> NotWritten]
  /\ request = NoRequest

\* A consumer evaluates environment.<p>.
Read(r, p) ==
  /\ got' = [got EXCEPT ![r] =
               [read |-> TRUE, path |-> p, val |-> GetPath(environment, p)]]
  /\ UNCHANGED <<environment, written, request>>

\* A consumer assigns environment.<p> = w.
Overwrite(p, w) ==
  /\ environment' = PutPath(environment, p, w)
  /\ written' = [written EXCEPT ![p] = w]
  /\ UNCHANGED <<got, request>>

\* The consumer that starts the authentication handshake reads the four
\* auth0 fields and places them in the request.
BuildAuthRequest ==
  /\ request' =
       [built |-> TRUE,
        domain |-> GetPath(environment, <<"auth0", "url">>),
        audience |-> GetPath(environment, <<"auth0", "audience">>),
        clientId |-> GetPath(environment, <<"auth0", "clientId">>),
        redirectUri |-> GetPath(environment, <<"auth0", "callbackURL">>)]
  /\ UNCHANGED <<environment, got, written>>

ReadAny == \E r \in Readers, p \in Paths : Read(r, p)

OverwriteAny == \E p \in CodePaths : \E w \in WriteValues(p) : Overwrite(p, w)

\* The repository as it stands: the record is only ever read.
Next == ReadAny \/ BuildAuthRequest

Spec == Init /\ [][Next]_vars

ReadField == \E r \in Readers, p \in CodePaths : Read(r, p)

\* Readers of the declared fields beside a consumer that assigns to them.
NextOverwrite == ReadField \/ OverwriteAny

SpecOverwrite == Init /\ [][NextOverwrite]_vars

---------------------------------------------------------------------------
(* URL syntax: scheme "://" host [ ":" port ].                             *)

Digits == {"0", "1", "2", "3", "4", "5", "6", "7", "8", "9"}

Letters ==
  {"a", "b", "c", "d", "e", "f", "g", "h", "i", "j", "k", "l", "m",
   "n", "o", "p", "q", "r", "s", "t", "u", "v", "w", "x", "y", "z",
   "A", "B", "C", "D", "E", "F", "G", "H", "I", "J", "K", "L", "M",
   "N", "O", "P", "Q", "R", "S", "T", "U", "V", "W", "X", "Y", "Z"}

HostChars == Letters \cup Digits \cup {".", "-"}

\* Index of the first c in s; Len(s) + 1 when there is none.
IndexOf(s, c) ==
  IF \E i \in 1..Len(s) : s[i] = c
    THEN CHOOSE i \in 1..Len(s) :
           s[i] = c /\ \A j \in 1..(i - 1) : s[j] # c
    ELSE Len(s) + 1

HasSeparator(s) ==
  LET i == IndexOf(s, ":")
  IN i + 2 <= Len(s) /\ s[i + 1] = "/" /\ s[i + 2] = "/"

Scheme(s) == SubSeq(s, 1, IndexOf(s, ":") - 1)

Authority(s) == SubSeq(s, IndexOf(s, ":") + 3, Len(s))

Host(s) == SubSeq(Authority(s), 1, IndexOf(Authority(s), ":") - 1)

HasPort(s) == IndexOf(Authority(s), ":") <= Len(Authority(s))

Port(s) ==
  SubSeq(Authority(s), IndexOf(Authority(s), ":") + 1, Len(Authority(s)))

IsValidUrl(s) ==
  /\ HasSeparator(s)
  /\ Scheme(s) \in {<<"h", "t", "t", "p">>, <<"h", "t", "t", "p", "s">>}
  /\ Len(Host(s)) > 0
  /\ \A i \in 1..Len(Host(s)) : Host(s)[i] \in HostChars
  /\ HasPort(s) =>
       /\ Len(Port(s)) > 0
       /\ \A i \in 1..Len(Port(s)) : Port(s)[i] \in Digits

---------------------------------------------------------------------------
(* The interface table of the specification: the field paths it declares,  *)
(* their declared types and the values it lists.                           *)

TableApiServerUrl ==
  <<"h", "t", "t", "p", ":", "/", "/", "1", "2", "7", ".", "0", ".", "0",
    ".", "1", ":", "5", "0", "0", "0">>

TableDomainPrefix ==
  <<"u", "i", "-", "i", "n", "t", "e", "g", "r", "a", "t", "e", "d", ".",
    "e", "u">>

TableAudience ==
  <<"h", "t", "t", "p", ":", "/", "/", "1", "2", "7", ".", "0", ".", "0",
    ".", "1", ":", "5", "0", "0", "0">>

TableClientId ==
  <<"q", "o", "P", "6", "2", "t", "t", "v", "o", "O", "2", "Q", "N", "p",
    "t", "G", "j", "G", "t", "1", "Z", "X", "8", "6", "5", "a", "i", "R",
    "Q", "x", "5", "d">>

TableCallbackUrl ==
  <<"h", "t", "t", "p", ":", "/", "/", "1", "2", "7", ".", "0", ".", "0",
    ".", "1", ":", "8", "1", "0", "0">>

\* The field of the source that each row of the table describes.
FieldOf(tp) ==
  CASE tp = <<"production">> -> <<"production">>
    [] tp = <<"apiServerUrl">> -> <<"apiServerUrl">>
    [] tp = <<"auth", "domainPrefix">> -> <<"auth0", "url">>
    [] tp = <<"auth", "audience">> -> <<"auth0", "audience">>
    [] tp = <<"auth", "clientId">> -> <<"auth0", "clientId">>
    [] tp = <<"auth", "callbackUrl">> -> <<"auth0", "callbackURL">>

TableType(tp) == IF tp = <<"production">> THEN "boolean" ELSE "string"

TableValue(tp) ==
  CASE tp = <<"production">> -> Bool(FALSE)
    [] tp = <<"apiServerUrl">> -> Str(TableApiServerUrl)
    [] tp = <<"auth", "domainPrefix">> -> Str(TableDomainPrefix)
    [] tp = <<"auth", "audience">> -> Str(TableAudience)
    [] tp = <<"auth", "clientId">> -> Str(TableClientId)
    [] tp = <<"auth", "callbackUrl">> -> Str(TableCallbackUrl)

TableUrlPaths ==
  {<<"apiServerUrl">>, <<"auth", "audience">>, <<"auth", "callbackUrl">>}

Defined(v) == typeof(v) \notin {"undefined", "TypeError"}

\* What a read of field p yields at load.
Loaded(p) == GetPath(EnvironmentLiteral, p)

---------------------------------------------------------------------------
(* Properties.                                                             *)

\* C1 (as stated): an overwrite of a field fails or is invisible, so every
\* read of a field returns the value the field had at load.
C1_ReadsKeepLoadedValue ==
  \A r \in Readers :
    (got[r].read /\ got[r].path \in CodePaths) =>
      got[r].val = Loaded(got[r].path)

\* C1 (amended): the record is not frozen.  A read of a field returns the
\* value last assigned to that field, and the loaded value when the field
\* was never assigned; an assignment to one field changes no other field.
C1_LastWriteWins ==
  \A p \in CodePaths :
    GetPath(environment, p) =
      (IF written[p] = NotWritten THEN Loaded(p) ELSE written[p])

C1_Witness ==
  \E r \in Readers :
    LET p == <<"auth0", "clientId">>
    IN /\ written[p] # NotWritten
       /\ written[p] # Loaded(p)
       /\ written[<<"auth0", "audience">>] = NotWritten
       /\ got[r] = [read |-> TRUE, path |-> p, val |-> written[p]]

\* C2 (as stated): a consumer reading a field by the path the interface
\* table declares obtains a defined value.
C2_TablePathsDefined ==
  \A r \in Readers :
    (got[r].read /\ got[r].path \in TablePaths) => Defined(got[r].val)

\* C2 (amended): the record has the top-level fields production,
\* apiServerUrl and auth0, and auth0 has the fields url, audience, clientId
\* and callbackURL; a read obtains a defined value exactly when it uses one
\* of these six paths.
C2_CodeShape ==
  /\ DOMAIN environment.f = {"production", "apiServerUrl", "auth0"}
  /\ DOMAIN environment.f.auth0.f =
       {"url", "audience", "clientId", "callbackURL"}
  /\ \A r \in Readers :
       got[r].read => (Defined(got[r].val) <=> got[r].path \in CodePaths)

C2_Witness ==
  \E r1, r2 \in Readers :
    /\ got[r1].read /\ got[r1].path = <<"auth0", "callbackURL">>
    /\ Defined(got[r1].val)
    /\ got[r2].read /\ got[r2].path = <<"auth", "callbackUrl">>
    /\ ~Defined(got[r2].val)

\* C3: every field the table lists is present and of its declared type,
\* and no string field is empty.
C3_PresentTypedNonEmpty ==
  \A tp \in TablePaths :
    LET v == GetPath(environment, FieldOf(tp))
    IN /\ Defined(v)
       /\ typeof(v) = TableType(tp)
       /\ typeof(v) = "string" => Len(v.s) > 0

C3_Witness ==
  \E r1, r2 \in Readers :
    /\ got[r1].read /\ got[r1].path = <<"production">>
    /\ typeof(got[r1].val) = "boolean"
    /\ got[r2].read /\ got[r2].path = <<"auth0", "clientId">>
    /\ typeof(got[r2].val) = "string" /\ Len(got[r2].val.s) > 0

\* C4: each field holds the literal value the interface table lists for it.
C4_LiteralValues ==
  \A tp \in TablePaths : GetPath(environment, FieldOf(tp)) = TableValue(tp)

C4_Witness ==
  \E r1, r2 \in Readers :
    /\ got[r1] =
         [read |-> TRUE, path |-> <<"production">>, val |-> Bool(FALSE)]
    /\ got[r2] =
         [read |-> TRUE, path |-> <<"auth0", "clientId">>,
          val |-> Str(TableClientId)]

\* C5: apiServerUrl, the audience and the callback URL are syntactically
\* valid URLs: http or https, "://", a non-empty host, an optional numeric
\* port.
C5_UrlsValid ==
  \A tp \in TableUrlPaths :
    LET v == GetPath(environment, FieldOf(tp))
    IN typeof(v) = "string" /\ IsValidUrl(v.s)

C5_Witness ==
  \E r \in Readers :
    /\ got[r].read /\ got[r].path = <<"auth0", "callbackURL">>
    /\ IsValidUrl(got[r].val.s)
    /\ HasPort(got[r].val.s)
    /\ Port(got[r].val.s) = <<"8", "1", "0", "0">>

\* C6: the record is established before any reader runs and stays as
\* loaded; whatever the interleaving, two reads of the same field obtain
\* the same value, and every reader can always read every field (none
\* waits on another).
C6_ReadersAgreeAndNeverWait ==
  /\ environment = EnvironmentLiteral
  /\ \A r1, r2 \in Readers :
       (got[r1].read /\ got[r2].read /\ got[r1].path = got[r2].path) =>
         got[r1].val = got[r2].val
  /\ \A r \in Readers :
       got[r].read => got[r].val = GetPath(environment, got[r].path)
  /\ \A r \in Readers, p \in Paths : ENABLED Read(r, p)

C6_Witness ==
  \E r1, r2 \in Readers :
    /\ r1 # r2
    /\ got[r1].read /\ got[r2].read
    /\ got[r1].path = <<"auth0", "audience">>
    /\ got[r2].path = <<"auth0", "audience">>
    /\ request.built

C8_AudienceIsApiCallbackOtherPort ==
  LET api == GetPath(environment, <<"apiServerUrl">>)
      aud == GetPath(environment, <<"auth0", "audience">>)
      cb == GetPath(environment, <<"auth0", "callbackURL">>)
  IN /\ aud = api
     /\ Host(cb.s) = Host(api.s)
     /\ HasPort(cb.s) /\ HasPort(api.s)
     /\ Port(cb.s) # Port(api.s)

C8_Witness ==
  \E r1, r2 \in Readers :
    /\ got[r1].read /\ got[r1].path = <<"apiServerUrl">>
    /\ got[r2].read /\ got[r2].path = <<"auth0", "callbackURL">>
    /\ Host(got[r1].val.s) = Host(got[r2].val.s)
    /\ Port(got[r1].val.s) # Port(got[r2].val.s)
    /\ request.built /\ request.audience = got[r1].val

====
